---- MODULE Spec2Model ----
(***************************************************************************)
(* Model of the three example programs of the repository:                  *)
(*   examples/my_ready.rs  MyFut (a future that is ready on its second     *)
(*                         poll), the my_ready! macro, poll_fut and main   *)
(*   examples/my_try.rs    the my_try! macro and the main that chains      *)
(*                         f1, f2 and f3 through it                        *)
(* Each program is a separate binary, so each has its own specification    *)
(* over the shared variables; the variables a program does not use keep    *)
(* their idle values.                                                      *)
(***************************************************************************)
EXTENDS Integers, Sequences, FiniteSets, TLC

VARIABLES
    fut,       \* the MyFut instance: [polled, v]
    arg,       \* the value handed to MyFut::new for that instance
    wakes,     \* number of wake_by_ref calls the task's waker has received
    hist,      \* what each poll call returned and how often it woke the waker
    mr,        \* expansion result of my_ready! on the last poll outcome
    task,      \* host view of the task: "runnable", "parked" or "done"
    notified,  \* a wake has been issued and not yet delivered to the task
    calls,     \* number of completed poll_fut calls
    pc,        \* position inside my_try.rs main
    input,     \* the string literal handed to f1
    tmp,       \* the value the last my_try! yielded
    mainRet,   \* what my_try.rs main returned
    out        \* lines printed by println!

vars == <<fut, arg, wakes, hist, mr, task, notified, calls, pc, input, tmp, mainRet, out>>

(***************************************************************************)
(* Bounds                                                                  *)
(***************************************************************************)
MaxVal == 42
MaxPolls == 5
MaxCalls == 60
MaxLen == 3

Values == 0..MaxVal

(***************************************************************************)
(* std::task::Poll<usize> and a bare usize, as values of expressions       *)
(***************************************************************************)
Pending == [tag |-> "Pending"]
Ready(v) == [tag |-> "Ready", v |-> v]
Usize(v) == [tag |-> "usize", v |-> v]

(***************************************************************************)
(* my_ready.rs: MyFut                                                      *)
(***************************************************************************)
new_polled(v) == [polled |-> TRUE, v |-> v]

MyFut_new(v) == [polled |-> FALSE, v |-> v]

\* cx.waker().wake_by_ref(): one more wake signal on the task's waker
wake_by_ref(cx) == cx + 1

poll_no_wake(self, cx) ==
    IF self.polled
    THEN [self |-> self, cx |-> cx, ret |-> Ready(self.v)]
    ELSE [self |-> [self EXCEPT !.polled = TRUE], cx |-> cx, ret |-> Pending]

poll_wake_always(self, cx) ==
    IF self.polled
    THEN [self |-> self, cx |-> wake_by_ref(cx), ret |-> Ready(self.v)]
    ELSE [self |-> [self EXCEPT !.polled = TRUE], cx |-> wake_by_ref(cx), ret |-> Pending]

poll_reset(self, cx) ==
    IF self.polled
    THEN [self |-> [self EXCEPT !.polled = FALSE], cx |-> cx, ret |-> Ready(self.v)]
    ELSE [self |-> [self EXCEPT !.polled = TRUE], cx |-> wake_by_ref(cx), ret |-> Pending]

poll_off_by_one(self, cx) ==
    IF self.polled
    THEN [self |-> self, cx |-> cx, ret |-> Ready(self.v + 1)]
    ELSE [self |-> [self EXCEPT !.polled = TRUE], cx |-> wake_by_ref(cx), ret |-> Pending]

poll_take(self, cx) ==
    IF self.polled
    THEN [self |-> [self EXCEPT !.v = 0], cx |-> cx, ret |-> Ready(self.v)]
    ELSE [self |-> [self EXCEPT !.polled = TRUE], cx |-> wake_by_ref(cx), ret |-> Pending]

poll_ready_first(self, cx) ==
    IF ~self.polled
    THEN [self |-> [self EXCEPT !.polled = TRUE], cx |-> wake_by_ref(cx), ret |-> Ready(self.v)]
    ELSE [self |-> self, cx |-> cx, ret |-> Ready(self.v)]

\* <MyFut as Future>::poll: the future after the call, the waker's count
\* after the call and the returned Poll
poll(self, cx) ==
    IF self.polled
    THEN [self |-> self, cx |-> cx, ret |-> Ready(self.v)]
    ELSE [self |-> [self EXCEPT !.polled = TRUE],
          cx |-> wake_by_ref(cx),
          ret |-> Pending]

(***************************************************************************)
(* my_ready.rs: my_ready!                                                  *)
(* ctl = "value": the match arm's value becomes the value of the macro     *)
(* expression; ctl = "return": the enclosing function returns val at once. *)
(***************************************************************************)
my_ready_no_return(expr) ==
    IF expr.tag = "Ready"
    THEN [ctl |-> "value", val |-> Ready(expr.v)]
    ELSE [ctl |-> "value", val |-> Pending]

my_ready(expr) ==
    IF expr.tag = "Ready"
    THEN [ctl |-> "value", val |-> Ready(expr.v)]
    ELSE [ctl |-> "return", val |-> Pending]

NoExpansion == [ctl |-> "none", val |-> Pending]

(***************************************************************************)
(* Idle values of the variables a program does not use                     *)
(***************************************************************************)
NoFut == [tag |-> "none"]
NoResult == [tag |-> "none"]
IdleFut == fut = NoFut /\ arg = 0
IdleHost == task = "idle" /\ notified = FALSE /\ calls = 0
IdleTry == pc = "idle" /\ input = "" /\ tmp = "" /\ mainRet = NoResult

(***************************************************************************)
(* Spec: one MyFut instance polled by an arbitrary caller that passes      *)
(* every outcome through my_ready!, as poll_fut does at line 98.           *)
(***************************************************************************)
Init ==
    /\ arg \in Values
    /\ fut = MyFut_new(arg)
    /\ wakes = 0
    /\ hist = <<>>
    /\ mr = NoExpansion
    /\ out = <<>>
    /\ IdleHost
    /\ IdleTry

Poll ==
    /\ Len(hist) < MaxPolls
    /\ LET r == poll(fut, wakes) IN
        /\ fut' = r.self
        /\ wakes' = r.cx
        /\ hist' = Append(hist, [ret |-> r.ret, woke |-> r.cx - wakes])
        /\ mr' = my_ready(r.ret)
    /\ UNCHANGED <<arg, task, notified, calls, pc, input, tmp, mainRet, out>>

Next == Poll

Spec == Init /\ [][Next]_vars

(***************************************************************************)
(* SpecHost: my_ready.rs main.  The runtime set up by #[tokio::main] polls *)
(* the task while it is runnable, parks it when the awaited future returns *)
(* Pending and makes it runnable again when a wake has been issued.        *)
(***************************************************************************)
Digits == <<"0", "1", "2", "3", "4", "5", "6", "7", "8", "9">>

RECURSIVE fmt_usize(_)
\* Display of a usize, as "{}" formats it
fmt_usize(n) ==
    IF n < 10 THEN Digits[n + 1]
    ELSE fmt_usize(n \div 10) \o Digits[(n % 10) + 1]

InitHost ==
    /\ arg \in Values
    /\ fut = MyFut_new(arg)
    /\ wakes = 0
    /\ hist = <<>>
    /\ mr = NoExpansion
    /\ out = <<>>
    /\ task = "runnable"
    /\ notified = FALSE
    /\ calls = 0
    /\ IdleTry

\* one poll of main's task: fut.await polls fut; Pending suspends main,
\* Ready(v) resumes it and the println! runs
HostPoll ==
    /\ task = "runnable"
    /\ LET r == poll(fut, wakes) IN
        /\ fut' = r.self
        /\ wakes' = r.cx
        /\ hist' = Append(hist, [ret |-> r.ret, woke |-> r.cx - wakes])
        /\ notified' = (notified \/ r.cx > wakes)
        /\ IF r.ret.tag = "Ready"
           THEN /\ out' = Append(out, "Final result: " \o fmt_usize(r.ret.v))
                /\ task' = "done"
           ELSE /\ out' = out
                /\ task' = "parked"
    /\ UNCHANGED <<arg, mr, calls, pc, input, tmp, mainRet>>

\* the runtime delivers an issued wake: the parked task is scheduled again
HostWake ==
    /\ task = "parked"
    /\ notified
    /\ task' = "runnable"
    /\ notified' = FALSE
    /\ UNCHANGED <<fut, arg, wakes, hist, mr, calls, pc, input, tmp, mainRet, out>>

NextHost == HostPoll \/ HostWake

SpecHost == InitHost /\ [][NextHost]_vars /\ WF_vars(HostPoll) /\ WF_vars(HostWake)

(***************************************************************************)
(* SpecPollFut: a host that drives poll_fut by hand, calling it again      *)
(* each time the wake it issued is delivered.                              *)
(***************************************************************************)
PollFutValue == 42

\* poll_fut: a fresh MyFut, polled once through my_ready!; both arms of the
\* macro end the function with a Poll<usize>
poll_fut(cx) ==
    LET fut0 == MyFut_new(PollFutValue)
        r == poll(fut0, cx)
        m == my_ready(r.ret)
    IN [cx |-> r.cx, ret |-> m.val, ctl |-> m.ctl]

InitPollFut ==
    /\ IdleFut
    /\ wakes = 0
    /\ hist = <<>>
    /\ mr = NoExpansion
    /\ out = <<>>
    /\ task = "runnable"
    /\ notified = FALSE
    /\ calls = 0
    /\ IdleTry

PollFutCall ==
    /\ task = "runnable"
    /\ calls < MaxCalls
    /\ LET r == poll_fut(wakes) IN
        /\ wakes' = r.cx
        /\ hist' = Append(hist, [ret |-> r.ret, woke |-> r.cx - wakes])
        /\ mr' = [ctl |-> r.ctl, val |-> r.ret]
        /\ notified' = (notified \/ r.cx > wakes)
        /\ task' = IF r.ret.tag = "Ready" THEN "done" ELSE "parked"
    /\ calls' = calls + 1
    /\ UNCHANGED <<fut, arg, pc, input, tmp, mainRet, out>>

NextPollFut == PollFutCall \/ HostWake

SpecPollFut == InitPollFut /\ [][NextPollFut]_vars

(***************************************************************************)
(* my_try.rs                                                               *)
(***************************************************************************)
Ok(v) == [tag |-> "Ok", val |-> v]
Err(e) == [tag |-> "Err", err |-> e]
Unit == <<>>

\* anyhow!(fmt, ..): an error made of the formatted message alone
anyhow(msg) == [msg |-> msg]

\* e.into() at anyhow::Error -> anyhow::Error: the reflexive From impl
into(e) == e

f1(s) == Ok("f1: " \o s)
f2(s) == Ok("f2: " \o s)
f3(s) == Err(anyhow("f3: " \o s))

my_try_wrap(expr) ==
    IF expr.tag = "Ok"
    THEN [ctl |-> "value", val |-> expr.val]
    ELSE [ctl |-> "return", val |-> Err(anyhow("my_try: " \o expr.err.msg))]

my_try(expr) ==
    IF expr.tag = "Ok"
    THEN [ctl |-> "value", val |-> expr.val]
    ELSE [ctl |-> "return", val |-> Err(into(expr.err))]

Alphabet == {"h", "e", "l", "o"}

RECURSIVE StringsOfLen(_)
StringsOfLen(n) ==
    IF n = 0 THEN {""}
    ELSE {s \o c : s \in StringsOfLen(n - 1), c \in Alphabet}

Inputs == {"hello"} \cup UNION {StringsOfLen(n) : n \in 0..MaxLen}

InitTry ==
    /\ IdleFut
    /\ wakes = 0
    /\ hist = <<>>
    /\ mr = NoExpansion
    /\ out = <<>>
    /\ IdleHost
    /\ input \in Inputs
    /\ pc = "f1"
    /\ tmp = ""
    /\ mainRet = NoResult

\* my_try!(f1(..)), innermost call of line 5
TryF1 ==
    /\ pc = "f1"
    /\ LET m == my_try(f1(input)) IN
        IF m.ctl = "return"
        THEN pc' = "returned" /\ mainRet' = m.val /\ tmp' = tmp
        ELSE pc' = "f2" /\ tmp' = m.val /\ mainRet' = mainRet
    /\ UNCHANGED <<fut, arg, wakes, hist, mr, task, notified, calls, input, out>>

\* my_try!(f2(..))
TryF2 ==
    /\ pc = "f2"
    /\ LET m == my_try(f2(tmp)) IN
        IF m.ctl = "return"
        THEN pc' = "returned" /\ mainRet' = m.val /\ tmp' = tmp
        ELSE pc' = "f3" /\ tmp' = m.val /\ mainRet' = mainRet
    /\ UNCHANGED <<fut, arg, wakes, hist, mr, task, notified, calls, input, out>>

\* let ret = my_try!(f3(..)); println!(..); Ok(())
TryF3 ==
    /\ pc = "f3"
    /\ LET m == my_try(f3(tmp)) IN
        IF m.ctl = "return"
        THEN /\ mainRet' = m.val
             /\ out' = out
             /\ tmp' = tmp
        ELSE /\ tmp' = m.val
             /\ out' = Append(out, "Final result: " \o m.val)
             /\ mainRet' = Ok(Unit)
    /\ pc' = "returned"
    /\ UNCHANGED <<fut, arg, wakes, hist, mr, task, notified, calls, input>>

NextTry == TryF1 \/ TryF2 \/ TryF3

SpecTry == InitTry /\ [][NextTry]_vars

(***************************************************************************)
(* Properties                                                              *)
(***************************************************************************)
Last(h) == h[Len(h)]
ReadySeen == \E i \in 1..Len(hist) : hist[i].ret.tag = "Ready"

\* C1: the first poll of a freshly constructed MyFut returns Pending and
\* invokes the wake signal exactly once during that call, for every v.
C1_FirstPollPendingOneWake ==
    Len(hist) >= 1 => (hist[1].ret = Pending /\ hist[1].woke = 1)

W_C1 == Len(hist) = 1 /\ fut.polled /\ arg = 42

\* C2: the second poll returns Ready(v) with v exactly the construction
\* value, and poll never changes the stored value.
C2_SecondPollReadyExact ==
    /\ fut.v = arg
    /\ Len(hist) >= 2 => hist[2].ret = Ready(arg)

W_C2 == Len(hist) = 2 /\ arg = 42 /\ hist[2].ret = Ready(42)

\* C3: every poll from the third on returns the same Ready(v) as the second
\* poll and leaves the ready flag and the stored value unchanged.
C3_IdempotentAfterCompletion ==
    [][Len(hist) >= 2 =>
          (fut' = fut /\ Last(hist').ret = hist[2].ret /\ Last(hist').ret.tag = "Ready")]_vars

W_C3 == Len(hist) >= 4 /\ arg > 0 /\ Last(hist).ret = Ready(arg)

\* C4: over the lifecycle of an instance (every use in the source polls it
\* at least once) the wake signal has been invoked exactly once, however
\* many polls follow: never 0 and never 2 or more.
C4_ExactlyOneWake ==
    Len(hist) >= 1 => wakes = 1

W_C4 == Len(hist) >= 3 /\ wakes = 1

\* C5: once some poll has returned Ready, no later poll invokes the wake
\* signal.
C5_NoWakeAfterReady ==
    [][ReadySeen => wakes' = wakes]_vars

W_C5 == ReadySeen /\ Len(hist) >= 3 /\ Last(hist).woke = 0

\* C6: the ready flag starts false and, once true, is never set back to
\* false.
C6_PolledMonotonic ==
    /\ fut.polled = FALSE
    /\ [][fut.polled => fut'.polled]_vars

W_C6 == fut.polled /\ Len(hist) >= 3

\* C7 as stated: on Pending my_ready! makes the enclosing function return
\* Pending at once; on Ready(v) it yields the bare payload v.
C7_YieldsBarePayload ==
    Len(hist) >= 1 =>
        LET r == Last(hist).ret IN
            /\ r = Pending => mr = [ctl |-> "return", val |-> Pending]
            /\ r.tag = "Ready" => mr = [ctl |-> "value", val |-> Usize(r.v)]

\* C7 amended: on Pending my_ready! makes the enclosing function return
\* Pending at once; on Ready(v) it yields Poll::Ready(v), the ready outcome
\* still wrapped and carrying the payload v unchanged.
C7_YieldsReadyOutcome ==
    Len(hist) >= 1 =>
        LET r == Last(hist).ret IN
            /\ r = Pending => mr = [ctl |-> "return", val |-> Pending]
            /\ r.tag = "Ready" => mr = [ctl |-> "value", val |-> Ready(arg)]

W_C7 == Len(hist) >= 2 /\ mr.ctl = "value" /\ mr.val = Ready(arg)

\* C8: my_try! forwards a failure unchanged and at once: main returns the
\* failure f3 produced, and the "Final result" line is never printed.
C8_FailureForwardedUnchanged ==
    /\ out = <<>>
    /\ pc = "returned" =>
          /\ mainRet = Err([msg |-> "f3: f2: f1: " \o input])
          /\ tmp = "f2: f1: " \o input

W_C8 == pc = "returned" /\ input = "hello" /\ mainRet.tag = "Err"

\* C9: under a host that parks the task on Pending and polls again once the
\* wake is delivered, awaiting MyFut::new(v) terminates: the host sees one
\* Pending, then Ready(v) on the second poll, and is never parked without
\* a wake having been issued in the poll that returned Pending.
C9_HostSafe ==
    /\ task = "parked" => notified
    /\ \A i \in 1..Len(hist) : hist[i].ret = Pending => hist[i].woke >= 1
    /\ Len(hist) <= 2
    /\ task = "done" =>
          /\ hist = <<[ret |-> Pending, woke |-> 1], [ret |-> Ready(arg), woke |-> 0]>>
          /\ out = <<"Final result: " \o fmt_usize(arg)>>

C9_AwaitTerminates ==
    /\ []C9_HostSafe
    /\ <>(task = "done")

W_C9 == task = "done" /\ Len(hist) = 2 /\ out = <<"Final result: 42">>

\* C10: every call of poll_fut, however often repeated, returns Pending and
\* invokes the wake signal once; poll_fut never returns Ready(42), and a
\* host that calls it again on each wake never completes.
C10_PollFutAlwaysPending ==
    /\ Len(hist) = calls
    /\ wakes = calls
    /\ \A i \in 1..Len(hist) : hist[i].ret = Pending /\ hist[i].woke = 1
    /\ calls >= 1 => mr = [ctl |-> "return", val |-> Pending]
    /\ task # "done"

W_C10 == calls >= 3 /\ task = "parked" /\ notified

====
